---- MODULE Spec2Model ----
(***************************************************************************)
(* SubzeroECS core: sorted-array component collections, the registry that  *)
(* binds them to a world, the 2-way / N-way intersection algorithms and    *)
(* the View iterator that drives them.                                     *)
(*                                                                         *)
(* Iterators into a std::vector are modelled as 1-based positions; the     *)
(* end iterator of a sequence s is Len(s) + 1.  A component pointer is the *)
(* 1-based position of the component in components_, 0 for nullptr.        *)
(***************************************************************************)
EXTENDS Integers, Sequences, FiniteSets, TLC

VARIABLES
    ids_,          \* Collection<T>::ids_ of the world's collection of each type
    components_,   \* Collection<T>::components_ of each type
    created,       \* history: per type, the (id, value) pairs stored by create
    last,          \* observable outcome of the last call
    freeMask_,     \* UniqueIndex32::freeList_s: the set of allocated indices
    registeryId_,  \* registeryId_ (a UniqueIndex32) of each live registry object
    instances,     \* per type: the table registry index -> live Collection<T>*
    live,          \* addresses of the constructed, not yet destroyed collections
    vecs,          \* the id vectors handed to the Intersection free functions
    iterators,     \* the cursors handed to the Intersection free functions
    found,         \* history: the ids the free functions reported, in order
    viewComponents, \* Components... of the View being iterated
    iterators_,    \* View::Iterator::iterators_, <<>> before begin() is called
    visited,       \* history: the ids the View iteration stopped at, in order
    outstanding,   \* history: successful allocs minus frees of allocated indices
    sinceFree,     \* history: the indices alloc returned since the last free call
    lastEntityId_, \* World::lastEntityId_
    issued         \* history: the ids World::create issued, in order

storeVars == <<ids_, components_, created>>
registryVars == <<freeMask_, registeryId_, instances, live>>
intersectVars == <<vecs, iterators, found>>
viewVars == <<viewComponents, iterators_, visited>>
allocVars == <<outstanding, sinceFree>>
worldVars == <<lastEntityId_, issued>>
vars == <<ids_, components_, created, last, freeMask_, registeryId_, instances,
          live, vecs, iterators, found, viewComponents, iterators_, visited,
          outstanding, sinceFree, lastEntityId_, issued>>

----------------------------------------------------------------------------
(* Bounds and program constants *)

\* Largest EntityId a caller passes to a Collection in SpecCollection
MaxId == 4

\* Component types
Types == {"Human", "Hat", "Health"}

\* Component values a caller passes to create
Values == {101, 102}

\* nullptr
Null == 0

\* Number of ids above the dense run that an id sequence may hold
MaxHigh == 3

\* FreeIndexList::Capacity
Capacity == 32

\* Number of CollectionRegistry objects the callers of SpecRegistry hold
MaxRegistries == 2

\* Largest EntityId a caller passes to World::add in SpecWorld
MaxWorldId == 1

\* Number of low indices the callers of SpecFreeIndexList free
MaxFreed == 3

\* Number of registry objects, besides the one past the capacity, that the
\* callers of SpecRegistryCapacity construct and destroy in any order
MaxScoped == 2

\* Registry objects; the World of SpecCollection and SpecView is the first
RegistryObjs == 1..MaxRegistries
World == CHOOSE r \in RegistryObjs : \A q \in RegistryObjs : r <= q

\* the null Collection<T>*
NullColl == <<Null, "none", Null>>

\* Addresses a Collection<T> can be constructed at, per registry and type
Slots == {1, 2}
Addresses == RegistryObjs \X Types \X Slots

----------------------------------------------------------------------------
(* std::vector / <algorithm> helpers *)

\* std::vector::insert(begin() + (pos - 1), x)
InsertAt(s, pos, x) ==
    SubSeq(s, 1, pos - 1) \o <<x>> \o SubSeq(s, pos, Len(s))

\* std::lower_bound(first, first + len, val): libstdc++'s halving loop
RECURSIVE LowerBoundLoop(_, _, _, _)
LowerBoundLoop(s, first, len, val) ==
    IF len <= 0 THEN first
    ELSE LET half == len \div 2
             middle == first + half
         IN  IF s[middle] < val
             THEN LowerBoundLoop(s, middle + 1, len - half - 1, val)
             ELSE LowerBoundLoop(s, first, half, val)

\* std::lower_bound(s.begin() + (first - 1), s.end(), val)
LowerBound(s, first, val) == LowerBoundLoop(s, first, Len(s) + 1 - first, val)

----------------------------------------------------------------------------
(* Collection<T>: a collection value is [ids, components] *)

EmptyCollection == [ids |-> <<>>, components |-> <<>>]

\* the test "iFind != ids_.end() && *iFind == entityId" of has and find
FoundAt_NoIdTest(ids, iFind, entityId) == iFind /= Len(ids) + 1

FoundAt(ids, iFind, entityId) ==
    iFind /= Len(ids) + 1 /\ ids[iFind] = entityId

\* the test "iFind != ids_.end() && *iFind == entityId" that makes create throw
DuplicateAt_Never(ids, iFind, entityId) == FALSE

DuplicateAt(ids, iFind, entityId) ==
    iFind /= Len(ids) + 1 /\ ids[iFind] = entityId

\* the position create inserts the id at (ids_.insert(iFind, entityId))
IdInsertPos_Append(ids, iFind) == Len(ids) + 1

IdInsertPos(ids, iFind) == iFind

\* the position create inserts the component at (components_.begin() + index)
ComponentInsertPos_Append(ids, iFind) == Len(ids) + 1

ComponentInsertPos(ids, iFind) == iFind

\* Collection::create: [thrown, c (the collection afterwards), ptr]
Collection_create(c, entityId, component) ==
    LET iFind == LowerBound(c.ids, 1, entityId) IN
    IF DuplicateAt(c.ids, iFind, entityId)
    THEN [thrown |-> "invalid_argument", c |-> c, ptr |-> Null]
    ELSE [thrown |-> "none",
          c |-> [ids |-> InsertAt(c.ids, IdInsertPos(c.ids, iFind), entityId),
                 components |-> InsertAt(c.components,
                                         ComponentInsertPos(c.ids, iFind),
                                         component)],
          ptr |-> iFind]

\* Collection::has
Collection_has(c, entityId) ==
    LET iFind == LowerBound(c.ids, 1, entityId) IN
    FoundAt(c.ids, iFind, entityId)

\* Collection::at: the position in components_ an id iterator maps to
Collection_at(c, iEntity) == iEntity

\* Collection::find: a component pointer, Null if absent
Collection_find(c, entityId) ==
    LET iFind == LowerBound(c.ids, 1, entityId) IN
    IF FoundAt(c.ids, iFind, entityId) THEN Collection_at(c, iFind) ELSE Null

\* Collection::get: [thrown, ptr]
Collection_get(c, entityId) ==
    LET iFind == LowerBound(c.ids, 1, entityId) IN
    IF iFind = Len(c.ids) + 1
    THEN [thrown |-> "invalid_argument", ptr |-> Null]
    ELSE [thrown |-> "none", ptr |-> Collection_at(c, iFind)]

\* Collection::begin .. Collection::end: the ids an iteration yields
Collection_iterate(c) == c.ids

\* the collection of type t in the current state
Coll(t) == [ids |-> ids_[t], components |-> components_[t]]

----------------------------------------------------------------------------
(* Intersection.hpp: free functions over cursors into ascending id         *)
(* sequences.  seqs is the tuple of sequences, its the tuple of cursors;   *)
(* every function returns [ret, its]: its return value and the cursors as  *)
(* it leaves them.                                                         *)

End(s) == Len(s) + 1

\* Intersection::intersect2: the merge loop
RECURSIVE Intersect2_SkipBoth(_, _)
Intersect2_SkipBoth(its, seqs) ==
    LET it1 == its[1]
        it2 == its[2]
        s1 == seqs[1]
        s2 == seqs[2]
    IN  IF s1[it1] < s2[it2]
        THEN IF it1 + 1 = End(s1)
             THEN [ret |-> FALSE, its |-> <<it1 + 1, it2>>]
             ELSE Intersect2_SkipBoth(<<it1 + 1, it2>>, seqs)
        ELSE IF ~(s2[it2] < s1[it1])
        THEN [ret |-> TRUE, its |-> its]
        ELSE IF it2 + 1 = End(s2) \/ it1 + 1 = End(s1)
             THEN [ret |-> FALSE, its |-> <<it1 + 1, it2 + 1>>]
             ELSE Intersect2_SkipBoth(<<it1 + 1, it2 + 1>>, seqs)

RECURSIVE Intersect2(_, _)
Intersect2(its, seqs) ==
    LET it1 == its[1]
        it2 == its[2]
        s1 == seqs[1]
        s2 == seqs[2]
    IN  IF s1[it1] < s2[it2]
        THEN IF it1 + 1 = End(s1)
             THEN [ret |-> FALSE, its |-> <<it1 + 1, it2>>]
             ELSE Intersect2(<<it1 + 1, it2>>, seqs)
        ELSE IF ~(s2[it2] < s1[it1])
        THEN [ret |-> TRUE, its |-> its]
        ELSE IF it2 + 1 = End(s2)
             THEN [ret |-> FALSE, its |-> <<it1, it2 + 1>>]
             ELSE Intersect2(<<it1, it2 + 1>>, seqs)

\* Intersection::begin2
Begin2(its, seqs) ==
    IF its[1] = End(seqs[1]) \/ its[2] = End(seqs[2])
    THEN [ret |-> FALSE, its |-> its]
    ELSE IF seqs[2][its[2]] = seqs[1][its[1]]
    THEN [ret |-> TRUE, its |-> its]
    ELSE Intersect2(its, seqs)

\* Intersection::increment2
Increment2(its, seqs) ==
    IF its[1] + 1 = End(seqs[1])
    THEN [ret |-> FALSE, its |-> <<its[1] + 1, its[2]>>]
    ELSE IF its[2] + 1 = End(seqs[2])
    THEN [ret |-> FALSE, its |-> <<its[1] + 1, its[2] + 1>>]
    ELSE LET adv == <<its[1] + 1, its[2] + 1>>
         IN  IF seqs[2][adv[2]] = seqs[1][adv[1]]
             THEN [ret |-> TRUE, its |-> adv]
             ELSE Intersect2(adv, seqs)

\* constexpr std::size_t GallopingThreshold
GallopingThreshold == 32

\* std::max over the ids the cursors point at (step 1 of intersectN)
MaxIdAt(its, seqs) ==
    LET vals == {seqs[k][its[k]] : k \in DOMAIN its}
    IN  CHOOSE m \in vals : \A v \in vals : v <= m

\* the linear scan of a lagging cursor, at most GallopingThreshold steps
RECURSIVE LinearScan(_, _, _, _)
LinearScan(s, it, maxId, linearCount) ==
    IF linearCount < GallopingThreshold /\ it /= End(s) /\ s[it] < maxId
    THEN LinearScan(s, it + 1, maxId, linearCount + 1)
    ELSE it

\* the search a lagging cursor falls back to after the linear scan
GallopSearch_UpperBound(s, it, maxId) == LowerBound(s, it, maxId + 1)

GallopSearch(s, it, maxId) == LowerBound(s, it, maxId)

\* step 2 of intersectN for one cursor: where the cursor is afterwards
GallopAdvance(s, it, maxId) ==
    IF s[it] < maxId
    THEN LET scanned == LinearScan(s, it, maxId, 0)
         IN  IF scanned /= End(s) /\ s[scanned] < maxId
             THEN GallopSearch(s, scanned, maxId)
             ELSE scanned
    ELSE it

\* step 2 of intersectN for the cursors k, k + 1, ..., in order
RECURSIVE AdvanceLagging(_, _, _, _)
AdvanceLagging(its, seqs, maxId, k) ==
    IF k > Len(its) THEN its
    ELSE AdvanceLagging([its EXCEPT ![k] = GallopAdvance(seqs[k], its[k], maxId)],
                        seqs, maxId, k + 1)

\* Intersection::intersectN: the max-skip loop
RECURSIVE IntersectN(_, _)
IntersectN(its, seqs) ==
    LET maxId == MaxIdAt(its, seqs)
        lagging == {k \in DOMAIN its : seqs[k][its[k]] < maxId}
        advanced == AdvanceLagging(its, seqs, maxId, 1)
        anyAtEnd == \E k \in lagging : advanced[k] = End(seqs[k])
        allAtMax == lagging = {}
    IN  IF anyAtEnd THEN [ret |-> FALSE, its |-> advanced]
        ELSE IF allAtMax THEN [ret |-> TRUE, its |-> advanced]
        ELSE IntersectN(advanced, seqs)

\* one round of the while (true) of intersect2 that never moves the second
\* cursor
Intersect2_round_StuckSecond(its, seqs) ==
    LET it1 == its[1]
        it2 == its[2]
        s1 == seqs[1]
        s2 == seqs[2]
    IN  IF s1[it1] < s2[it2]
        THEN [done |-> it1 + 1 = End(s1), ret |-> FALSE, its |-> <<it1 + 1, it2>>]
        ELSE IF ~(s2[it2] < s1[it1])
        THEN [done |-> TRUE, ret |-> TRUE, its |-> its]
        ELSE [done |-> FALSE, ret |-> FALSE, its |-> its]

\* one round of the while (true) of Intersection::intersect2: [done, ret,
\* its], done when the round returns ret, else the loop goes round again
Intersect2_round(its, seqs) ==
    LET it1 == its[1]
        it2 == its[2]
        s1 == seqs[1]
        s2 == seqs[2]
    IN  IF s1[it1] < s2[it2]
        THEN [done |-> it1 + 1 = End(s1), ret |-> FALSE, its |-> <<it1 + 1, it2>>]
        ELSE IF ~(s2[it2] < s1[it1])
        THEN [done |-> TRUE, ret |-> TRUE, its |-> its]
        ELSE [done |-> it2 + 1 = End(s2), ret |-> FALSE, its |-> <<it1, it2 + 1>>]

\* one round of the while (true) of Intersection::intersectN
IntersectN_round(its, seqs) ==
    LET maxId == MaxIdAt(its, seqs)
        lagging == {k \in DOMAIN its : seqs[k][its[k]] < maxId}
        advanced == AdvanceLagging(its, seqs, maxId, 1)
        anyAtEnd == \E k \in lagging : advanced[k] = End(seqs[k])
        allAtMax == lagging = {}
    IN  IF anyAtEnd THEN [done |-> TRUE, ret |-> FALSE, its |-> advanced]
        ELSE IF allAtMax THEN [done |-> TRUE, ret |-> TRUE, its |-> advanced]
        ELSE [done |-> FALSE, ret |-> FALSE, its |-> advanced]

\* "all iterators already point to the same EntityId"
AllMatch(its, seqs) ==
    \A k \in DOMAIN its : k = 1 \/ seqs[k][its[k]] = seqs[1][its[1]]

\* Intersection::beginN
BeginN(its, seqs) ==
    IF \E k \in DOMAIN its : its[k] = End(seqs[k])
    THEN [ret |-> FALSE, its |-> its]
    ELSE IF AllMatch(its, seqs)
    THEN [ret |-> TRUE, its |-> its]
    ELSE IntersectN(its, seqs)

\* the fold (++it_k == end_k) || ... : cursors are advanced in order up to
\* and including the first that reaches its end
RECURSIVE AdvanceUntilEnd(_, _, _)
AdvanceUntilEnd(its, seqs, k) ==
    IF k > Len(its) THEN [atEnd |-> FALSE, its |-> its]
    ELSE LET adv == [its EXCEPT ![k] = @ + 1]
         IN  IF adv[k] = End(seqs[k])
             THEN [atEnd |-> TRUE, its |-> adv]
             ELSE AdvanceUntilEnd(adv, seqs, k + 1)

\* an incrementN that searches from the current position
IncrementN_NoAdvance(its, seqs) == BeginN(its, seqs)

\* Intersection::incrementN
IncrementN(its, seqs) ==
    LET a == AdvanceUntilEnd(its, seqs, 1)
    IN  IF a.atEnd THEN [ret |-> FALSE, its |-> a.its]
        ELSE IF AllMatch(a.its, seqs) THEN [ret |-> TRUE, its |-> a.its]
        ELSE IntersectN(a.its, seqs)

----------------------------------------------------------------------------
(* View<Components...>::Iterator (View.hpp).  its is iterators_, seqs the  *)
(* ids_ of the view's collections in the order of Components.              *)

\* "Set all to end": every cursor at its collection's end
AllEnd(seqs) == [k \in DOMAIN seqs |-> End(seqs[k])]

\* View::Iterator::intersect2
RECURSIVE View_intersect2(_, _)
View_intersect2(its, seqs) ==
    LET it1 == its[1]
        it2 == its[2]
        s1 == seqs[1]
        s2 == seqs[2]
    IN  IF s1[it1] < s2[it2]
        THEN IF it1 + 1 = End(s1)
             THEN <<it1 + 1, End(s2)>>
             ELSE View_intersect2(<<it1 + 1, it2>>, seqs)
        ELSE IF ~(s2[it2] < s1[it1])
        THEN its
        ELSE IF it2 + 1 = End(s2)
             THEN <<End(s1), it2 + 1>>
             ELSE View_intersect2(<<it1, it2 + 1>>, seqs)

\* a begin2 that leaves the first cursor where it is when the second is at
\* its end
View_begin2_KeepCursors(its, seqs) ==
    IF its[1] = End(seqs[1]) THEN <<its[1], End(seqs[2])>>
    ELSE IF its[2] = End(seqs[2]) THEN its
    ELSE IF seqs[2][its[2]] = seqs[1][its[1]] THEN its
    ELSE View_intersect2(its, seqs)

\* View::Iterator::begin2
View_begin2(its, seqs) ==
    IF its[1] = End(seqs[1]) THEN <<its[1], End(seqs[2])>>
    ELSE IF its[2] = End(seqs[2]) THEN <<End(seqs[1]), its[2]>>
    ELSE IF seqs[2][its[2]] = seqs[1][its[1]] THEN its
    ELSE View_intersect2(its, seqs)

\* View::Iterator::increment2
View_increment2_NoSearch(its, seqs) ==
    IF its[1] + 1 = End(seqs[1]) THEN <<its[1] + 1, End(seqs[2])>>
    ELSE IF its[2] + 1 = End(seqs[2]) THEN <<End(seqs[1]), its[2] + 1>>
    ELSE <<its[1] + 1, its[2] + 1>>

View_increment2(its, seqs) ==
    IF its[1] + 1 = End(seqs[1]) THEN <<its[1] + 1, End(seqs[2])>>
    ELSE IF its[2] + 1 = End(seqs[2]) THEN <<End(seqs[1]), its[2] + 1>>
    ELSE LET adv == <<its[1] + 1, its[2] + 1>>
         IN  IF seqs[2][adv[2]] = seqs[1][adv[1]] THEN adv
             ELSE View_intersect2(adv, seqs)

\* View::Iterator::intersectN
RECURSIVE View_intersectN(_, _)
View_intersectN(its, seqs) ==
    LET maxId == MaxIdAt(its, seqs)
        lagging == {k \in DOMAIN its : seqs[k][its[k]] < maxId}
        advanced == AdvanceLagging(its, seqs, maxId, 1)
        anyAtEnd == \E k \in lagging : advanced[k] = End(seqs[k])
        allAtMax == lagging = {}
    IN  IF anyAtEnd THEN AllEnd(seqs)
        ELSE IF allAtMax THEN advanced
        ELSE View_intersectN(advanced, seqs)

\* View::Iterator::beginN
View_beginN(its, seqs) ==
    IF \E k \in DOMAIN its : its[k] = End(seqs[k]) THEN AllEnd(seqs)
    ELSE IF AllMatch(its, seqs) THEN its
    ELSE View_intersectN(its, seqs)

\* ((++std::get<Is>(iterators_)), ...): every cursor advanced by one
RECURSIVE AdvanceAll(_, _)
AdvanceAll(its, k) ==
    IF k > Len(its) THEN its ELSE AdvanceAll([its EXCEPT ![k] = @ + 1], k + 1)

\* an incrementN that stops where the cursors are after the advance
View_incrementN_NoSearch(its, seqs) ==
    LET adv == AdvanceAll(its, 1)
    IN  IF \E k \in DOMAIN adv : adv[k] = End(seqs[k]) THEN AllEnd(seqs)
        ELSE adv

\* View::Iterator::incrementN
View_incrementN(its, seqs) ==
    LET adv == AdvanceAll(its, 1)
    IN  IF \E k \in DOMAIN adv : adv[k] = End(seqs[k]) THEN AllEnd(seqs)
        ELSE IF AllMatch(adv, seqs) THEN adv
        ELSE View_intersectN(adv, seqs)

\* View::Iterator::Iterator(collections, iterators)
View_Iterator(its, seqs) ==
    IF Len(its) = 1 THEN its
    ELSE IF Len(its) = 2 THEN View_begin2(its, seqs)
    ELSE View_beginN(its, seqs)

\* View::Iterator::operator++
View_preincrement(its, seqs) ==
    IF Len(its) = 1 THEN <<its[1] + 1>>
    ELSE IF Len(its) = 2 THEN View_increment2(its, seqs)
    ELSE View_incrementN(its, seqs)

\* View::begin
View_begin(seqs) == View_Iterator([k \in DOMAIN seqs |-> 1], seqs)

\* View::end
View_end(seqs) == View_Iterator(AllEnd(seqs), seqs)

\* an operator== that compares the sizes of the cursor tuples
View_equal_SizeOnly(a, b) == Len(a) = Len(b)

\* View::Iterator::operator==
View_equal(a, b) == a = b

\* View::Iterator::operator EntityId
View_entityId(its, seqs) == seqs[1][its[1]]

\* the cursor Iterator::get<Component>() hands to Collection::at
View_getCursor_First(its, k) == its[1]

View_getCursor(its, k) == its[k]

\* View::Iterator::get<Component>(): the component pointer for the k-th type
View_get(its, colls, k) == Collection_at(colls[k], View_getCursor(its, k))

----------------------------------------------------------------------------
(* FreeIndexList / UniqueIndex32 *)

\* the number of allocated indices, whichever they are
CountrOneFrom_Popcount(mask, i) == Cardinality(mask)

\* std::countr_one(bits): the number of consecutive allocated indices from 0
RECURSIVE CountrOneFrom(_, _)
CountrOneFrom(mask, i) ==
    IF i < Capacity /\ i \in mask THEN CountrOneFrom(mask, i + 1) ELSE i

\* a full test that stops one index short of the capacity
FreeIndexList_isFull_OneShort(mask) == \A i \in 0..(Capacity - 2) : i \in mask

\* freeMask_.all()
FreeIndexList_isFull(mask) == \A i \in 0..(Capacity - 1) : i \in mask

\* an allocator without the test for a full list
FreeIndexList_alloc_Unchecked(mask) ==
    LET index == CountrOneFrom(mask, 0)
    IN  [thrown |-> "none", index |-> index, mask |-> mask \cup {index}]

\* an allocator that hands out index 0 whatever is allocated
FreeIndexList_alloc_AlwaysZero(mask) ==
    [thrown |-> "none", index |-> 0, mask |-> mask \cup {0}]

\* FreeIndexList::alloc: [thrown, index, mask]
FreeIndexList_alloc(mask) ==
    IF FreeIndexList_isFull(mask)
    THEN [thrown |-> "overflow_error", mask |-> mask]
    ELSE LET index == CountrOneFrom(mask, 0)
         IN  [thrown |-> "none", index |-> index, mask |-> mask \cup {index}]

\* a free that leaves the bit set
FreeIndexList_free_NoReset(mask, index) == mask

\* FreeIndexList::free
FreeIndexList_free(mask, index) == mask \ {index}

\* FreeIndexList::isEmpty: freeMask_.none()
FreeIndexList_isEmpty(mask) == \A i \in 0..(Capacity - 1) : i \notin mask

\* a count of the clear bits
FreeIndexList_count_Free(mask) == Capacity - Cardinality(mask)

\* FreeIndexList::count: freeMask_.count()
FreeIndexList_count(mask) == Cardinality(mask)

----------------------------------------------------------------------------
(* CollectionRegistry: the per-type instance tables, indexed by registry id *)

NoInstances == [t \in Types |-> [i \in 0..(Capacity - 1) |-> NullColl]]

\* CollectionRegistry::find<T>(): the live Collection<T>* of registry r
Registry_find(tables, regId, t) == tables[t][regId]

\* CollectionRegistry::get<T>(): [thrown, coll]
Registry_get(tables, regId, t) ==
    IF tables[t][regId] = NullColl
    THEN [thrown |-> "invalid_argument", coll |-> NullColl]
    ELSE [thrown |-> "none", coll |-> tables[t][regId]]

\* CollectionRegistry::registerCollection<T>(collection): [thrown, tables]
Registry_registerCollection(tables, regId, t, addr) ==
    IF tables[t][regId] /= NullColl
    THEN [thrown |-> "invalid_argument", tables |-> tables]
    ELSE [thrown |-> "none", tables |-> [tables EXCEPT ![t][regId] = addr]]

\* CollectionRegistry::unregisterCollection<T>(collection)
Registry_unregisterCollection(tables, regId, t) ==
    [tables EXCEPT ![t][regId] = NullColl]

\* a destructor whose walk over the tables unregisters nothing
Registry_unregisterAll_None(tables, regId) == tables

\* CollectionRegistry::~CollectionRegistry: every table drops this registry id
Registry_unregisterAll(tables, regId) ==
    [t \in Types |-> [tables[t] EXCEPT ![regId] = NullColl]]

----------------------------------------------------------------------------
(* EntityId.  A std::uint32_t value v is held as the 32-bit two's          *)
(* complement integer with the same bit pattern: v itself below 2^31,      *)
(* v - 2^32 from 2^31 up, so that the largest value, 2^32 - 1, is -1.      *)

\* EntityId::Invalid, std::numeric_limits<std::uint32_t>::max()
Invalid == -1

\* the bit pattern 0x7FFFFFFF, whose successor is 0x80000000
MaxPositive == 2147483647
MinNegative == -MaxPositive - 1

\* isNull(entityId)
isNull(entityId) == entityId = Invalid

\* EntityId::next(): [thrown, id]; the successor, std::overflow_error at the
\* largest value
EntityId_next(id) ==
    IF id = Invalid
    THEN [thrown |-> "overflow_error", id |-> id]
    ELSE [thrown |-> "none",
          id |-> IF id = MaxPositive THEN MinNegative ELSE id + 1]

\* EntityId::operator++: the successor modulo 2^32
EntityId_preincrement(id) == IF id = MaxPositive THEN MinNegative ELSE id + 1

\* a newEntityId that increments the counter in place
World_newEntityId_Increment(lastId) ==
    [thrown |-> "none", id |-> EntityId_preincrement(lastId)]

\* World::newEntityId: [thrown, id]; lastEntityId_ becomes id unless thrown
World_newEntityId(lastId) == EntityId_next(lastId)

\* no FreeIndexList call made, no World constructed
NoAlloc == outstanding = 0 /\ sinceFree = {}
NoWorld == lastEntityId_ = Invalid /\ issued = <<>>

----------------------------------------------------------------------------
(* Outcome records *)

NoCall == [op |-> "none", reg |-> 0, type |-> "none", id |-> 0, value |-> Null,
           thrown |-> "none", ptr |-> Null, flag |-> FALSE]

Outcome(op, t, id, v, thrown, ptr, flag) ==
    [op |-> op, reg |-> World, type |-> t, id |-> id, value |-> v,
     thrown |-> thrown, ptr |-> ptr, flag |-> flag]

\* the value a component pointer of collection c points at
Deref(c, ptr) == IF ptr = Null THEN Null ELSE c.components[ptr]

----------------------------------------------------------------------------
(* SpecCollection: one World with a live Collection<Human>; callers create *)
(* components in any id order and query them.                              *)

HumanAddr == <<World, "Human", 1>>

InitCollection ==
    /\ ids_ = [t \in Types |-> <<>>]
    /\ components_ = [t \in Types |-> <<>>]
    /\ created = [t \in Types |-> {}]
    /\ last = NoCall
    /\ freeMask_ = {0}
    /\ registeryId_ = [r \in {World} |-> 0]
    /\ instances = [NoInstances EXCEPT !["Human"][0] = HumanAddr]
    /\ live = {HumanAddr}
    /\ vecs = <<>> /\ iterators = <<>> /\ found = <<>>
    /\ viewComponents = <<>> /\ iterators_ = <<>> /\ visited = <<>>
    /\ NoAlloc
    /\ NoWorld

\* the state change and outcome of collection.create(id, v), called as op
DoCreate(op, t, id, v) ==
    LET r == Collection_create(Coll(t), id, v) IN
    /\ ids_' = [ids_ EXCEPT ![t] = r.c.ids]
    /\ components_' = [components_ EXCEPT ![t] = r.c.components]
    /\ created' = IF r.thrown = "none"
                  THEN [created EXCEPT ![t] = @ \cup {<<id, v>>}]
                  ELSE created
    /\ last' = Outcome(op, t, id, v, r.thrown, r.ptr, FALSE)

\* humanCollection.create(id, v)
Create(t, id, v) ==
    /\ Registry_find(instances, registeryId_[World], t) /= NullColl
    /\ DoCreate("create", t, id, v)
    /\ UNCHANGED <<registryVars, intersectVars, viewVars, allocVars, worldVars>>

\* World::add<T>(id, v)
WorldAdd(t, id, v) ==
    LET g == Registry_get(instances, registeryId_[World], t) IN
    /\ IF g.thrown /= "none"
       THEN /\ last' = Outcome("add", t, id, v, g.thrown, Null, FALSE)
            /\ UNCHANGED storeVars
       ELSE DoCreate("add", t, id, v)
    /\ UNCHANGED <<registryVars, intersectVars, viewVars, allocVars, worldVars>>

\* collection.has(id)
Has(t, id) ==
    /\ Registry_find(instances, registeryId_[World], t) /= NullColl
    /\ last' = Outcome("has", t, id, Null, "none", Null,
                       Collection_has(Coll(t), id))
    /\ UNCHANGED <<storeVars, registryVars, intersectVars, viewVars,
                   allocVars, worldVars>>

\* collection.find(id)
Find(t, id) ==
    /\ Registry_find(instances, registeryId_[World], t) /= NullColl
    /\ LET p == Collection_find(Coll(t), id) IN
       last' = Outcome("find", t, id, Deref(Coll(t), p), "none", p, FALSE)
    /\ UNCHANGED <<storeVars, registryVars, intersectVars, viewVars,
                   allocVars, worldVars>>

\* collection.get(id)
Get(t, id) ==
    /\ Registry_find(instances, registeryId_[World], t) /= NullColl
    /\ LET g == Collection_get(Coll(t), id) IN
       last' = Outcome("get", t, id, Deref(Coll(t), g.ptr), g.thrown, g.ptr, FALSE)
    /\ UNCHANGED <<storeVars, registryVars, intersectVars, viewVars,
                   allocVars, worldVars>>

NextCollection ==
    \/ \E t \in Types, id \in 1..MaxId, v \in Values : Create(t, id, v)
    \/ \E t \in Types, id \in 1..MaxId, v \in Values : WorldAdd(t, id, v)
    \/ \E t \in Types, id \in 1..MaxId : Has(t, id)
    \/ \E t \in Types, id \in 1..MaxId : Find(t, id)
    \/ \E t \in Types, id \in 1..MaxId : Get(t, id)

SpecCollection == InitCollection /\ [][NextCollection]_vars

----------------------------------------------------------------------------
(* Ascending id sequences used as inputs.  The k-th sequence is a dense    *)
(* run of its own ids k, k + 3, k + 6, ... (no two sequences share a run   *)
(* id) followed by any subset of the high ids, which all sequences may     *)
(* share.  A run longer than GallopingThreshold puts a cursor more than    *)
(* GallopingThreshold elements behind a cursor that starts on a high id.   *)

TypeSeq == <<"Human", "Hat", "Health">>

TypeIndex(t) == CHOOSE k \in DOMAIN TypeSeq : TypeSeq[k] = t

RunLens == {0, GallopingThreshold, GallopingThreshold + 1}

HighBase == Len(TypeSeq) * (GallopingThreshold + 1)

HighIds == (HighBase + 1)..(HighBase + MaxHigh)

RECURSIVE SortedSeq(_)
SortedSeq(S) ==
    IF S = {} THEN <<>>
    ELSE LET m == CHOOSE x \in S : \A y \in S : x <= y
         IN  <<m>> \o SortedSeq(S \ {m})

RunOf(k, len) == [i \in 1..len |-> Len(TypeSeq) * (i - 1) + k]

IdSequences(k) == {RunOf(k, len) \o SortedSeq(S) : len \in RunLens, S \in SUBSET HighIds}

\* the tuples of n input sequences
RECURSIVE IdSequenceTuples(_)
IdSequenceTuples(n) ==
    IF n = 0 THEN {<<>>}
    ELSE {Append(f, s) : f \in IdSequenceTuples(n - 1), s \in IdSequences(n)}

\* no registry, no collection
NoRegistry ==
    /\ freeMask_ = {}
    /\ registeryId_ = <<>>
    /\ instances = NoInstances
    /\ live = {}

NoStore ==
    /\ ids_ = [t \in Types |-> <<>>]
    /\ components_ = [t \in Types |-> <<>>]
    /\ created = [t \in Types |-> {}]

----------------------------------------------------------------------------
(* SpecIntersect: a caller holds 2 or 3 ascending id vectors with cursors  *)
(* at their begin, calls begin2 / beginN once and then increment2 /        *)
(* incrementN for as long as the previous call returned true.              *)

InitIntersect ==
    /\ NoStore
    /\ NoRegistry
    /\ last = NoCall
    /\ \E N \in 2..Len(TypeSeq) : vecs \in IdSequenceTuples(N)
    /\ iterators = [k \in DOMAIN vecs |-> 1]
    /\ found = <<>>
    /\ viewComponents = <<>> /\ iterators_ = <<>> /\ visited = <<>>
    /\ NoAlloc
    /\ NoWorld

\* the caller's bookkeeping after a call that returned r
Returned(op, r) ==
    /\ iterators' = r.its
    /\ last' = [NoCall EXCEPT !.op = op, !.flag = r.ret]
    /\ found' = IF r.ret THEN Append(found, vecs[1][r.its[1]]) ELSE found
    /\ UNCHANGED <<storeVars, registryVars, vecs, viewVars,
                   allocVars, worldVars>>

CallBegin2 ==
    /\ last.op = "none"
    /\ Len(vecs) = 2
    /\ Returned("begin2", Begin2(iterators, vecs))

CallIncrement2 ==
    /\ last.op \in {"begin2", "increment2"}
    /\ last.flag
    /\ Returned("increment2", Increment2(iterators, vecs))

CallBeginN ==
    /\ last.op = "none"
    /\ Returned("beginN", BeginN(iterators, vecs))

CallIncrementN ==
    /\ last.op \in {"beginN", "incrementN"}
    /\ last.flag
    /\ Returned("incrementN", IncrementN(iterators, vecs))

NextIntersect ==
    \/ CallBegin2
    \/ CallIncrement2
    \/ CallBeginN
    \/ CallIncrementN

SpecIntersect == InitIntersect /\ [][NextIntersect]_vars

----------------------------------------------------------------------------
(* SpecView: a World whose collections hold any ids; a View over the first *)
(* 1, 2 or 3 component types is iterated from begin() with ++ until the    *)
(* iterator equals end().                                                  *)

\* the component value the caller stored for entity id in the k-th collection
ValueOf(k, id) == 1000 * k + id

\* ids_ of the view's collections, in the order of Components
ViewSeqs == [k \in DOMAIN viewComponents |-> ids_[viewComponents[k]]]

ViewColls == [k \in DOMAIN viewComponents |-> Coll(viewComponents[k])]

InitView ==
    /\ \E n \in 1..Len(TypeSeq) : \E f \in IdSequenceTuples(n) :
          /\ viewComponents = SubSeq(TypeSeq, 1, n)
          /\ ids_ = [t \in Types |-> IF TypeIndex(t) <= n THEN f[TypeIndex(t)] ELSE <<>>]
    /\ components_ = [t \in Types |->
                        [i \in 1..Len(ids_[t]) |-> ValueOf(TypeIndex(t), ids_[t][i])]]
    /\ created = [t \in Types |->
                    {<<ids_[t][i], components_[t][i]>> : i \in 1..Len(ids_[t])}]
    /\ last = NoCall
    /\ freeMask_ = {0}
    /\ registeryId_ = [r \in {World} |-> 0]
    /\ instances = [t \in Types |-> [NoInstances[t] EXCEPT ![0] = <<World, t, 1>>]]
    /\ live = {<<World, t, 1>> : t \in Types}
    /\ vecs = <<>> /\ iterators = <<>> /\ found = <<>>
    /\ iterators_ = <<>>
    /\ visited = <<>>
    /\ NoAlloc
    /\ NoWorld

\* the iteration arrives at iterator it: the loop body runs unless it is end()
Arrive(it) ==
    /\ iterators_' = it
    /\ visited' = IF View_equal(it, View_end(ViewSeqs))
                  THEN visited
                  ELSE Append(visited, View_entityId(it, ViewSeqs))
    /\ UNCHANGED <<storeVars, last, registryVars, intersectVars, viewComponents,
                   allocVars, worldVars>>

\* auto it = view.begin()
ViewBegin ==
    /\ iterators_ = <<>>
    /\ Arrive(View_begin(ViewSeqs))

\* ++it, in a loop that runs while it != view.end()
ViewIncrement ==
    /\ iterators_ /= <<>>
    /\ ~View_equal(iterators_, View_end(ViewSeqs))
    /\ Arrive(View_preincrement(iterators_, ViewSeqs))

NextView ==
    \/ ViewBegin
    \/ ViewIncrement

SpecView == InitView /\ [][NextView]_vars

----------------------------------------------------------------------------
(* Claims about Collection<T>, checked under SpecCollection *)

StrictlyAscending(s) == \A i \in 1..(Len(s) - 1) : s[i] < s[i + 1]

IdsOf(t) == {ids_[t][i] : i \in 1..Len(ids_[t])}

CreatedIds(t) == {p[1] : p \in created[t]}

\* a create that stored its id before ids that were already there
InsertedBelow ==
    /\ last.op \in {"create", "add"}
    /\ last.thrown = "none"
    /\ last.ptr < Len(ids_[last.type])

\* C1: after any sequence of successful create calls, in any id order, the
\* iteration begin()..end() yields the ids in strictly ascending order, none
\* repeated, and yields exactly the created ids.
C1_IdsStrictlyAscending ==
    \A t \in Types :
        /\ StrictlyAscending(Collection_iterate(Coll(t)))
        /\ IdsOf(t) = CreatedIds(t)

C1_Witness ==
    /\ InsertedBelow
    /\ Len(ids_[last.type]) >= 3

\* C2: for every created pair (id, v), get(id) returns v and find(id) is a
\* non-null pointer to that same value; ids_ and components_ have equal length.
C2_CreatedPairsReadBack ==
    \A t \in Types :
        /\ Len(ids_[t]) = Len(components_[t])
        /\ \A p \in created[t] :
              LET g == Collection_get(Coll(t), p[1])
                  f == Collection_find(Coll(t), p[1])
              IN  /\ g.thrown = "none"
                  /\ Deref(Coll(t), g.ptr) = p[2]
                  /\ f /= Null
                  /\ f = g.ptr

C2_Witness ==
    /\ InsertedBelow
    /\ Len(ids_[last.type]) >= 3
    /\ \E p, q \in created[last.type] : p[2] /= q[2]

\* C3: a create (direct or through World::add) for an id that already holds a
\* component fails with invalid_argument and leaves ids_ and components_ as
\* they were.
C3_DuplicateCreateRejected ==
    [][(/\ last'.op \in {"create", "add"}
        /\ last'.type \in Types
        /\ last'.id \in CreatedIds(last'.type))
       => (/\ last'.thrown = "invalid_argument"
           /\ ids_' = ids_
           /\ components_' = components_)]_vars

C3_Witness ==
    /\ last.op = "add"
    /\ last.thrown = "invalid_argument"
    /\ last.id \in IdsOf(last.type)
    /\ Len(ids_[last.type]) >= 2

\* C4: get(id) fails with invalid_argument for every id that is not stored,
\* and never returns the component of another entity.
C4_GetAbsentThrows ==
    (last.op = "get" /\ last.id \notin IdsOf(last.type))
        => last.thrown = "invalid_argument"

\* C5: has(id) is true exactly when id was created, and find(id) is non-null
\* exactly when has(id) is true.
C5_HasFindMatchCreated ==
    \A t \in Types : \A id \in 1..MaxId :
        /\ Collection_has(Coll(t), id) <=> id \in CreatedIds(t)
        /\ Collection_find(Coll(t), id) /= Null <=> Collection_has(Coll(t), id)
        /\ (last.op = "has" /\ last.type = t /\ last.id = id)
              => (last.flag <=> id \in CreatedIds(t))
        /\ (last.op = "find" /\ last.type = t /\ last.id = id)
              => (last.ptr /= Null <=> id \in CreatedIds(t))

C5_Witness ==
    /\ last.op = "find"
    /\ last.ptr = Null
    /\ \E lo, hi \in IdsOf(last.type) : lo < last.id /\ last.id < hi

----------------------------------------------------------------------------
(* Claims about View, checked under SpecView *)

RECURSIVE CommonIds(_, _)
CommonIds(ss, k) ==
    LET here == {ss[k][i] : i \in 1..Len(ss[k])}
    IN  IF k = Len(ss) THEN here ELSE here \cap CommonIds(ss, k + 1)

ViewAtEnd == View_equal(iterators_, View_end(ViewSeqs))

\* C6: iterating a View from begin() with ++ until the iterator equals end()
\* visits exactly the ids present in all its collections, each once, in
\* ascending order; with no common id begin() == end().
C6_ViewVisitsIntersection ==
    iterators_ /= <<>> =>
        LET common == SortedSeq(CommonIds(ViewSeqs, 1))
        IN  IF ViewAtEnd
            THEN visited = common
            ELSE /\ Len(visited) >= 1
                 /\ Len(visited) <= Len(common)
                 /\ visited = SubSeq(common, 1, Len(visited))
                 /\ iterators_[1] /= End(ViewSeqs[1])
                 /\ View_entityId(iterators_, ViewSeqs) = visited[Len(visited)]

C6_Witness ==
    /\ Len(viewComponents) = 3
    /\ iterators_ /= <<>>
    /\ ViewAtEnd
    /\ Len(visited) >= 2
    /\ \E k \in DOMAIN ViewSeqs : Len(ViewSeqs[k]) > GallopingThreshold + 1

\* C7: at every position a View iterator visits before end(), get<T>() of
\* each component type of the view returns the value stored in Collection<T>
\* for the entity id the iterator denotes.
C7_ViewGetReadsCurrentEntity ==
    (iterators_ /= <<>> /\ ~ViewAtEnd) =>
        \A k \in DOMAIN viewComponents :
            LET id == View_entityId(iterators_, ViewSeqs)
                ptr == View_get(iterators_, ViewColls, k)
            IN  /\ ptr \in 1..Len(components_[viewComponents[k]])
                /\ <<id, Deref(ViewColls[k], ptr)>> \in created[viewComponents[k]]

C7_Witness ==
    /\ iterators_ /= <<>>
    /\ ~ViewAtEnd
    /\ Len(viewComponents) = 3
    /\ iterators_[1] /= iterators_[2]
    /\ iterators_[2] /= iterators_[3]
    /\ Len(ViewSeqs[1]) /= Len(ViewSeqs[2])

----------------------------------------------------------------------------
(* Claims about the Intersection free functions, checked under SpecIntersect *)

\* what a caller has seen after a begin / increment call of the family ops:
\* true once per common id in ascending order with all cursors on it, false
\* exactly when no further common id exists
ReportsIntersection(ops) ==
    last.op \in ops =>
        LET common == SortedSeq(CommonIds(vecs, 1))
        IN  IF last.flag
            THEN /\ Len(found) >= 1
                 /\ Len(found) <= Len(common)
                 /\ found = SubSeq(common, 1, Len(found))
                 /\ \A k \in DOMAIN vecs :
                       /\ iterators[k] /= End(vecs[k])
                       /\ vecs[k][iterators[k]] = found[Len(found)]
            ELSE found = common

\* C8: beginN then repeated incrementN return true exactly once for each id
\* common to all N sequences, ascending, with all cursors on it, and false on
\* the call after the last common id, for gaps below and above the threshold.
C8_NWayReportsIntersection == ReportsIntersection({"beginN", "incrementN"})

C8_Witness ==
    /\ last.op = "incrementN"
    /\ ~last.flag
    /\ Len(vecs) = 3
    /\ Len(found) >= 2
    /\ found[1] \in HighIds
    /\ \E k \in DOMAIN vecs : Len(vecs[k]) > GallopingThreshold + 2

\* C9: begin2 then repeated increment2 return true exactly once for each id
\* present in both sequences, ascending, with both cursors on it, and false
\* once no further common id exists.
C9_TwoWayReportsIntersection == ReportsIntersection({"begin2", "increment2"})

C9_Witness ==
    /\ last.op = "increment2"
    /\ ~last.flag
    /\ Len(found) >= 2
    /\ \E k \in DOMAIN vecs : Len(vecs[k]) > Len(found)

----------------------------------------------------------------------------
(* SpecRegistry: callers construct and destroy CollectionRegistry objects  *)
(* and Collection<T> objects bound to them, in any order.  A collection    *)
(* whose registry is destroyed first is never touched again: its           *)
(* destructor would use a dangling registry reference.                     *)

RegistryOutcome(op, r, t, thrown) ==
    [op |-> op, reg |-> r, type |-> t, id |-> 0, value |-> Null,
     thrown |-> thrown, ptr |-> Null, flag |-> FALSE]

\* the registry objects alive
LiveRegistries == DOMAIN registeryId_

InitRegistry ==
    /\ NoStore
    /\ NoRegistry
    /\ last = NoCall
    /\ vecs = <<>> /\ iterators = <<>> /\ found = <<>>
    /\ viewComponents = <<>> /\ iterators_ = <<>> /\ visited = <<>>
    /\ NoAlloc
    /\ NoWorld

\* CollectionRegistry::CollectionRegistry, registeryId_ from UniqueIndex32()
ConstructRegistry(r) ==
    /\ r \notin LiveRegistries
    /\ LET a == FreeIndexList_alloc(freeMask_) IN
       /\ last' = RegistryOutcome("CollectionRegistry", r, "none", a.thrown)
       /\ freeMask_' = a.mask
       /\ registeryId_' =
              IF a.thrown /= "none" THEN registeryId_
              ELSE [q \in LiveRegistries \cup {r} |->
                        IF q = r THEN a.index ELSE registeryId_[q]]
    /\ UNCHANGED <<instances, live, storeVars, intersectVars, viewVars,
                   allocVars, worldVars>>

\* CollectionRegistry::~CollectionRegistry, then ~UniqueIndex32; last.flag
\* tells whether a collection was still registered when the destructor ran
DestroyRegistry(r) ==
    /\ r \in LiveRegistries
    /\ instances' = Registry_unregisterAll(instances, registeryId_[r])
    /\ freeMask_' = FreeIndexList_free(freeMask_, registeryId_[r])
    /\ registeryId_' = [q \in LiveRegistries \ {r} |-> registeryId_[q]]
    /\ live' = {a \in live : a[1] /= r}
    /\ last' = [RegistryOutcome("~CollectionRegistry", r, "none", "none")
                    EXCEPT !.flag = \E t \in Types :
                                        instances[t][registeryId_[r]] /= NullColl]
    /\ UNCHANGED <<storeVars, intersectVars, viewVars, allocVars, worldVars>>

\* a constructor that swallows what registerCollection throws
ConstructCollection_Swallow(addr) ==
    /\ addr[1] \in LiveRegistries
    /\ addr \notin live
    /\ instances' = Registry_registerCollection(instances, registeryId_[addr[1]],
                                                addr[2], addr).tables
    /\ live' = live \cup {addr}
    /\ last' = RegistryOutcome("Collection", addr[1], addr[2], "none")
    /\ UNCHANGED <<freeMask_, registeryId_, storeVars, intersectVars, viewVars,
                   allocVars, worldVars>>

\* Collection<T>::Collection(registry) for the object at addr
ConstructCollection(addr) ==
    /\ addr[1] \in LiveRegistries
    /\ addr \notin live
    /\ LET reg == Registry_registerCollection(instances, registeryId_[addr[1]],
                                              addr[2], addr) IN
       /\ instances' = reg.tables
       /\ live' = IF reg.thrown = "none" THEN live \cup {addr} ELSE live
       /\ last' = RegistryOutcome("Collection", addr[1], addr[2], reg.thrown)
    /\ UNCHANGED <<freeMask_, registeryId_, storeVars, intersectVars, viewVars,
                   allocVars, worldVars>>

\* a destructor that leaves the registration in place
DestroyCollection_NoUnregister(addr) ==
    /\ addr \in live
    /\ live' = live \ {addr}
    /\ last' = RegistryOutcome("~Collection", addr[1], addr[2], "none")
    /\ UNCHANGED <<instances, freeMask_, registeryId_, storeVars,
                   intersectVars, viewVars, allocVars, worldVars>>

\* Collection<T>::~Collection for the object at addr
DestroyCollection(addr) ==
    /\ addr \in live
    /\ instances' = Registry_unregisterCollection(instances,
                                                  registeryId_[addr[1]], addr[2])
    /\ live' = live \ {addr}
    /\ last' = RegistryOutcome("~Collection", addr[1], addr[2], "none")
    /\ UNCHANGED <<freeMask_, registeryId_, storeVars, intersectVars, viewVars,
                   allocVars, worldVars>>

NextRegistry ==
    \/ \E r \in RegistryObjs : ConstructRegistry(r)
    \/ \E r \in RegistryObjs : DestroyRegistry(r)
    \/ \E addr \in Addresses : ConstructCollection(addr)
    \/ \E addr \in Addresses : DestroyCollection(addr)

SpecRegistry == InitRegistry /\ [][NextRegistry]_vars

----------------------------------------------------------------------------
(* SpecRegistryCapacity: a caller holds one registry object more than the  *)
(* capacity.  Most are constructed in order and kept, as by the push_back  *)
(* loop of ExceedCapacity_Throws; the last few are constructed and         *)
(* destroyed in any order before that loop starts and after it ends.       *)

CapacityObjs == 1..(Capacity + 1)
ScopedObjs == (Capacity + 1 - MaxScoped)..(Capacity + 1)
KeptObjs == CapacityObjs \ ScopedObjs

\* the next object the construction loop makes, if any is left
NextKept ==
    {r \in KeptObjs \ LiveRegistries :
        \A q \in KeptObjs \ LiveRegistries : r <= q}

\* the construction loop has not started, or has ended
OutsideLoop == KeptObjs \cap LiveRegistries = {} \/ KeptObjs \subseteq LiveRegistries

NextRegistryCapacity ==
    \/ \E r \in NextKept : ConstructRegistry(r)
    \/ \E r \in ScopedObjs : OutsideLoop /\ ConstructRegistry(r)
    \/ \E r \in ScopedObjs : OutsideLoop /\ DestroyRegistry(r)

SpecRegistryCapacity == InitRegistry /\ [][NextRegistryCapacity]_vars

----------------------------------------------------------------------------
(* SpecWorld: one World with collections registered for some of the types; *)
(* callers create entities with any components, evaluated in any order,    *)
(* add components under ids of their own and query them.  The ids stored   *)
(* in collections are below 2^31, where the order of the held integers is  *)
(* the order of the std::uint32_t values.                                  *)

\* the orders in which the arguments of a call can be evaluated
Orders(S) ==
    {f \in [1..Cardinality(S) -> S] : \A i, j \in DOMAIN f : f[i] = f[j] => i = j}

\* the component packs a caller passes to World::create
Items == UNION {[S -> Values] : S \in SUBSET Types}

InitWorld ==
    /\ NoStore
    /\ last = NoCall
    /\ freeMask_ = {0}
    /\ registeryId_ = [r \in {World} |-> 0]
    /\ \E registered \in SUBSET Types :
           /\ instances = [t \in Types |->
                  [NoInstances[t] EXCEPT ![0] =
                       IF t \in registered THEN <<World, t, 1>> ELSE NullColl]]
           /\ live = {<<World, t, 1>> : t \in registered}
    /\ vecs = <<>> /\ iterators = <<>> /\ found = <<>>
    /\ viewComponents = <<>> /\ iterators_ = <<>> /\ visited = <<>>
    /\ NoAlloc
    /\ NoWorld

\* World::has<T>(id)
World_has(t, id) ==
    /\ Registry_find(instances, registeryId_[World], t) /= NullColl
    /\ Collection_has(Coll(t), id)

\* World::find<T>(id): a component pointer, Null if absent or unregistered
World_find(t, id) ==
    IF Registry_find(instances, registeryId_[World], t) = NullColl THEN Null
    ELSE Collection_find(Coll(t), id)

\* a get that answers null for an unregistered type
World_get_NullIfUnregistered(t, id) ==
    IF Registry_find(instances, registeryId_[World], t) = NullColl
    THEN [thrown |-> "none", ptr |-> Null]
    ELSE Collection_get(Coll(t), id)

\* World::get<T>(id): [thrown, ptr]
World_get(t, id) ==
    LET g == Registry_get(instances, registeryId_[World], t) IN
    IF g.thrown /= "none" THEN [thrown |-> g.thrown, ptr |-> Null]
    ELSE Collection_get(Coll(t), id)

\* CollectionRegistry::get<Components>().create(entityId, items)... in the
\* order given; st is [ids, components, created, thrown], the walk stops at
\* the first throw
RECURSIVE CreateEach(_, _, _, _)
CreateEach(st, order, entityId, items) ==
    IF order = <<>> THEN st
    ELSE LET t == Head(order)
             g == Registry_get(instances, registeryId_[World], t)
             r == Collection_create([ids |-> st.ids[t],
                                     components |-> st.components[t]],
                                    entityId, items[t])
         IN  IF g.thrown /= "none" THEN [st EXCEPT !.thrown = g.thrown]
             ELSE IF r.thrown /= "none" THEN [st EXCEPT !.thrown = r.thrown]
             ELSE CreateEach(
                      [ids |-> [st.ids EXCEPT ![t] = r.c.ids],
                       components |-> [st.components EXCEPT ![t] = r.c.components],
                       created |-> [st.created EXCEPT
                                        ![t] = @ \cup {<<entityId, items[t]>>}],
                       thrown |-> "none"],
                      Tail(order), entityId, items)

\* World::create() and World::create(Components&&...); the outcome holds the
\* id of the returned Entity, Invalid when the call throws
WorldCreate(order, items) ==
    LET n == World_newEntityId(lastEntityId_) IN
    IF n.thrown /= "none"
    THEN /\ last' = Outcome("create", "none", Invalid, items, n.thrown, Null, FALSE)
         /\ UNCHANGED <<storeVars, worldVars, registryVars, intersectVars,
                        viewVars, allocVars>>
    ELSE LET st == CreateEach([ids |-> ids_, components |-> components_,
                               created |-> created, thrown |-> "none"],
                              order, n.id, items)
         IN  /\ lastEntityId_' = n.id
             /\ issued' = Append(issued, n.id)
             /\ ids_' = st.ids
             /\ components_' = st.components
             /\ created' = st.created
             /\ last' = Outcome("create", "none",
                                IF st.thrown = "none" THEN n.id ELSE Invalid,
                                items, st.thrown, Null, FALSE)
             /\ UNCHANGED <<registryVars, intersectVars, viewVars, allocVars>>

\* World::has<T>(id)
WorldHas(t, id) ==
    /\ last' = Outcome("has", t, id, Null, "none", Null, World_has(t, id))
    /\ UNCHANGED <<storeVars, registryVars, intersectVars, viewVars,
                   allocVars, worldVars>>

\* World::find<T>(id)
WorldFind(t, id) ==
    /\ LET p == World_find(t, id) IN
       last' = Outcome("find", t, id, Deref(Coll(t), p), "none", p, FALSE)
    /\ UNCHANGED <<storeVars, registryVars, intersectVars, viewVars,
                   allocVars, worldVars>>

\* World::get<T>(id)
WorldGet(t, id) ==
    /\ LET g == World_get(t, id) IN
       last' = Outcome("get", t, id, Deref(Coll(t), g.ptr), g.thrown, g.ptr, FALSE)
    /\ UNCHANGED <<storeVars, registryVars, intersectVars, viewVars,
                   allocVars, worldVars>>

NextWorld ==
    \/ \E items \in Items : \E order \in Orders(DOMAIN items) :
           WorldCreate(order, items)
    \/ \E t \in Types, id \in 1..MaxWorldId, v \in Values : WorldAdd(t, id, v)
    \/ \E t \in Types, id \in 1..MaxWorldId : WorldHas(t, id)
    \/ \E t \in Types, id \in 1..MaxWorldId : WorldFind(t, id)
    \/ \E t \in Types, id \in 1..MaxWorldId : WorldGet(t, id)

SpecWorld == InitWorld /\ [][NextWorld]_vars

----------------------------------------------------------------------------
(* SpecViewConstruct: on one World, callers construct and destroy          *)
(* collections and construct Views over any pack of distinct types.        *)

\* the packs Components... of the views constructed
ViewPacks == UNION {Orders(S) : S \in (SUBSET Types) \ {{}}}

\* a constructor that only looks the first component up with get
View_View_FirstOnly(tables, regId, comps) ==
    IF Registry_get(tables, regId, comps[1]).thrown /= "none"
    THEN [thrown |-> "invalid_argument", collections |-> <<>>]
    ELSE [thrown |-> "none",
          collections |-> [k \in DOMAIN comps |->
                              Registry_find(tables, regId, comps[k])]]

\* View::View(registry): [thrown, collections]; collections_ holds
\* registry.get<Components>()... unless one of them throws
View_View(tables, regId, comps) ==
    IF \E k \in DOMAIN comps :
           Registry_get(tables, regId, comps[k]).thrown /= "none"
    THEN [thrown |-> "invalid_argument", collections |-> <<>>]
    ELSE [thrown |-> "none",
          collections |-> [k \in DOMAIN comps |->
                              Registry_get(tables, regId, comps[k]).coll]]

\* View::getCollection<Component>(): the member of collections_ at the
\* index of Component in Components...
View_getCollection(collections, comps, t) ==
    collections[CHOOSE k \in DOMAIN comps :
                    comps[k] = t /\ \A j \in 1..(k - 1) : comps[j] /= t]

\* View<comps> view(world); the outcome holds collections_ as ptr
ConstructView(comps) ==
    /\ LET v == View_View(instances, registeryId_[World], comps) IN
       last' = [op |-> "View", reg |-> World, type |-> comps, id |-> 0,
                value |-> Null, thrown |-> v.thrown, ptr |-> v.collections,
                flag |-> FALSE]
    /\ UNCHANGED <<storeVars, registryVars, intersectVars, viewVars,
                   allocVars, worldVars>>

NextViewConstruct ==
    \/ \E addr \in Addresses : addr[1] = World /\ ConstructCollection(addr)
    \/ \E addr \in Addresses : addr[1] = World /\ DestroyCollection(addr)
    \/ \E comps \in ViewPacks : ConstructView(comps)

SpecViewConstruct == InitWorld /\ [][NextViewConstruct]_vars

----------------------------------------------------------------------------
(* SpecFreeIndexList: callers of one FreeIndexList, fresh at the start,    *)
(* call alloc and free in any order; they free a few low indices and the   *)
(* highest one, allocated or not.                                          *)

FreeTargets == 0..(MaxFreed - 1) \cup {Capacity - 1}

AllocOutcome(op, index, thrown, flag) ==
    [op |-> op, reg |-> 0, type |-> "none", id |-> index, value |-> Null,
     thrown |-> thrown, ptr |-> Null, flag |-> flag]

InitFreeIndexList ==
    /\ NoStore
    /\ NoRegistry
    /\ last = NoCall
    /\ vecs = <<>> /\ iterators = <<>> /\ found = <<>>
    /\ viewComponents = <<>> /\ iterators_ = <<>> /\ visited = <<>>
    /\ NoAlloc
    /\ NoWorld

\* list.alloc(); flag: the call follows a free of an index that alloc had
\* returned since the free before
Alloc ==
    LET a == FreeIndexList_alloc(freeMask_) IN
    /\ freeMask_' = a.mask
    /\ IF a.thrown = "none"
       THEN /\ last' = AllocOutcome("alloc", a.index, "none",
                                    last.op = "free" /\ last.flag)
            /\ outstanding' = outstanding + 1
            /\ sinceFree' = sinceFree \cup {a.index}
       ELSE /\ last' = AllocOutcome("alloc", 0, a.thrown,
                                    last.op = "free" /\ last.flag)
            /\ UNCHANGED allocVars
    /\ UNCHANGED <<registeryId_, instances, live, storeVars, intersectVars,
                   viewVars, worldVars>>

\* list.free(index); flag: alloc returned index since the free before
Free(index) ==
    /\ freeMask_' = FreeIndexList_free(freeMask_, index)
    /\ outstanding' = IF index \in freeMask_ THEN outstanding - 1
                                              ELSE outstanding
    /\ sinceFree' = {}
    /\ last' = AllocOutcome("free", index, "none", index \in sinceFree)
    /\ UNCHANGED <<registeryId_, instances, live, storeVars, intersectVars,
                   viewVars, worldVars>>

NextFreeIndexList ==
    \/ Alloc
    \/ \E index \in FreeTargets : Free(index)

SpecFreeIndexList == InitFreeIndexList /\ [][NextFreeIndexList]_vars

----------------------------------------------------------------------------
(* Claims about the registry *)

\* C10: a step that constructs or destroys a Collection<T> (or a registry)
\* on one registry leaves find<T>() and get<T>() of every other registry
\* that is alive before and after the step unchanged, for every type T,
\* the type acted on included.
C10_OtherRegistryUnaffected ==
    [][\A q \in LiveRegistries \cap LiveRegistries' :
           q /= last'.reg =>
               \A t \in Types :
                   /\ Registry_find(instances', registeryId_'[q], t)
                          = Registry_find(instances, registeryId_[q], t)
                   /\ Registry_get(instances', registeryId_'[q], t)
                          = Registry_get(instances, registeryId_[q], t)]_vars

\* Two registries alive, the last step unregistered type T from one of them
\* while the other holds its own Collection<T>
C10_Witness ==
    /\ last.op = "~Collection"
    /\ \E q \in LiveRegistries :
           /\ q /= last.reg
           /\ last.reg \in LiveRegistries
           /\ Registry_find(instances, registeryId_[last.reg], last.type) = NullColl
           /\ Registry_find(instances, registeryId_[q], last.type) /= NullColl
           /\ Registry_get(instances, registeryId_[q], last.type).thrown = "none"

\* the live Collection<T> objects bound to registry object r
LiveCollections(r, t) == {a \in live : a[1] = r /\ a[2] = t}

\* C11: for every live registry and type T, find<T>() is the address of the
\* live Collection<T> of that registry, or null when there is none; get<T>()
\* returns that same collection, or throws std::invalid_argument when there
\* is none.
C11_FindGetTrackLiveCollection ==
    \A r \in LiveRegistries, t \in Types :
        LET f == Registry_find(instances, registeryId_[r], t)
            g == Registry_get(instances, registeryId_[r], t)
        IN  IF LiveCollections(r, t) = {}
            THEN f = NullColl /\ g.thrown = "invalid_argument"
            ELSE /\ LiveCollections(r, t) = {f}
                 /\ g = [thrown |-> "none", coll |-> f]

\* Two registries alive, each holding its own Collection<T> at a different
\* address, the one of the registry acted on just constructed
C11_Witness ==
    /\ last.op = "Collection"
    /\ last.thrown = "none"
    /\ Cardinality(LiveRegistries) = 2
    /\ LiveCollections(last.reg, last.type) = {<<last.reg, last.type, 2>>}
    /\ \E q \in LiveRegistries \ {last.reg} :
           LiveCollections(q, last.type) = {<<q, last.type, 1>>}

\* C12: constructing a Collection<T> on a registry that already has a live
\* Collection<T> throws std::invalid_argument and the registry still maps T
\* to the first collection.
C12_DuplicateTypeRejected ==
    [][(last'.op = "Collection" /\ LiveCollections(last'.reg, last'.type) /= {})
        => /\ last'.thrown = "invalid_argument"
           /\ live' = live
           /\ LiveCollections(last'.reg, last'.type)
                  = {Registry_find(instances', registeryId_'[last'.reg],
                                   last'.type)}]_vars

\* A construction was just rejected and the first collection is still found
C12_Witness ==
    /\ last.op = "Collection"
    /\ last.thrown = "invalid_argument"
    /\ last.reg \in LiveRegistries
    /\ Registry_find(instances, registeryId_[last.reg], last.type) \in live

\* C13: never more than 32 registries are alive; constructing a registry
\* succeeds whenever fewer than 32 are alive and throws std::overflow_error,
\* leaving the live registries as they are, when 32 are alive; destroying a
\* registry leaves one alive fewer.
C13_RegistryCapacity ==
    [][/\ Cardinality(LiveRegistries') <= Capacity
       /\ last'.op = "CollectionRegistry" =>
              IF Cardinality(LiveRegistries) < Capacity
              THEN /\ last'.thrown = "none"
                   /\ last'.reg \notin LiveRegistries
                   /\ LiveRegistries' = LiveRegistries \cup {last'.reg}
              ELSE /\ last'.thrown = "overflow_error"
                   /\ LiveRegistries' = LiveRegistries
       /\ last'.op = "~CollectionRegistry" =>
              Cardinality(LiveRegistries')
                  = Cardinality(LiveRegistries) - 1]_vars

\* 32 registries alive and the construction of one more just failed
C13_Witness ==
    /\ last.op = "CollectionRegistry"
    /\ last.thrown = "overflow_error"
    /\ last.reg \notin LiveRegistries
    /\ Cardinality(LiveRegistries) = Capacity

----------------------------------------------------------------------------
(* Claims about the FreeIndexList *)

\* the free indices of a mask
FreeIndices(mask) == (0..(Capacity - 1)) \ mask

\* C14: on a list that is not full, alloc returns the lowest free index and
\* marks exactly that index allocated.
C14_AllocLowestFree ==
    [][(last'.op = "alloc" /\ FreeIndices(freeMask_) /= {}) =>
           /\ last'.thrown = "none"
           /\ last'.id \in FreeIndices(freeMask_)
           /\ \A i \in FreeIndices(freeMask_) : last'.id <= i
           /\ freeMask_' = freeMask_ \cup {last'.id}]_vars

\* alloc just filled a hole below an allocated index
C14_Witness ==
    /\ last.op = "alloc"
    /\ last.thrown = "none"
    /\ \E j \in freeMask_ : j > last.id
    /\ \E j \in FreeIndices(freeMask_) : j > last.id

\* C15: alloc throws std::overflow_error exactly when all 32 indices are
\* allocated, and the failed call leaves the allocated set as it is: count()
\* stays 32 and isFull() stays true.
C15_AllocFullThrows ==
    [][last'.op = "alloc" =>
           /\ last'.thrown = "overflow_error"
                  <=> Cardinality(freeMask_) = Capacity
           /\ last'.thrown \in {"none", "overflow_error"}
           /\ last'.thrown = "overflow_error" =>
                  /\ freeMask_' = freeMask_
                  /\ FreeIndexList_count(freeMask_') = Capacity
                  /\ FreeIndexList_isFull(freeMask_')]_vars

\* alloc just failed on a full list
C15_Witness ==
    /\ last.op = "alloc"
    /\ last.thrown = "overflow_error"
    /\ FreeIndexList_isFull(freeMask_)
    /\ outstanding = Capacity

C17_CountMatchesAllocsMinusFrees ==
    /\ FreeIndexList_count(freeMask_) = outstanding
    /\ FreeIndexList_isEmpty(freeMask_) <=> FreeIndexList_count(freeMask_) = 0
    /\ FreeIndexList_isFull(freeMask_)
           <=> FreeIndexList_count(freeMask_) = Capacity

\* some indices are allocated with a hole among them, after a free
C17_Witness ==
    /\ last.op = "free"
    /\ last.id \notin freeMask_
    /\ outstanding > 1
    /\ \E j \in freeMask_ : j > last.id
    /\ ~FreeIndexList_isEmpty(freeMask_)
    /\ ~FreeIndexList_isFull(freeMask_)

----------------------------------------------------------------------------
(* Claims about the World *)

\* the collection of type t after the step
CollAfter(t) == [ids |-> ids_'[t], components |-> components_'[t]]

\* the types registered with the World
Registered == {t \in Types :
                  Registry_find(instances, registeryId_[World], t) /= NullColl}

\* C18: every create() succeeds and returns an id that is not Invalid; the
\* id is one greater than the id issued before, if any.
C18_CreateIssuesSuccessors ==
    [][(last'.op = "create" /\ DOMAIN last'.value = {}) =>
           /\ last'.thrown = "none"
           /\ ~isNull(last'.id)
           /\ issued' = Append(issued, last'.id)
           /\ issued /= <<>> => last'.id = issued[Len(issued)] + 1]_vars

C20_CreateStoresComponents ==
    [][(last'.op = "create" /\ DOMAIN last'.value \subseteq Registered) =>
           /\ last'.thrown = "none"
           /\ ~isNull(last'.id)
           /\ \A t \in DOMAIN last'.value :
                  /\ Collection_has(CollAfter(t), last'.id)
                  /\ Deref(CollAfter(t),
                           Collection_find(CollAfter(t), last'.id))
                         = last'.value[t]
           /\ \A t \in Types \ DOMAIN last'.value :
                  ~(t \in Registered /\ Collection_has(CollAfter(t), last'.id))
           /\ \A t \in Types : \A p \in created[t] :
                  Deref(CollAfter(t), Collection_find(CollAfter(t), p[1]))
                      = p[2]]_vars

\* C21: for a type with no live collection in the world, has answers false
\* and find answers null without throwing, while add and get throw
\* std::invalid_argument.
C21_UnregisteredTypeQueries ==
    (last.op \in {"has", "find", "add", "get"} /\ last.type \notin Registered)
        => /\ last.op = "has" => last.thrown = "none" /\ ~last.flag
           /\ last.op = "find" => last.thrown = "none" /\ last.ptr = Null
           /\ last.op = "add" => last.thrown = "invalid_argument"
           /\ last.op = "get" => last.thrown = "invalid_argument"

\* get was just called for a type that has no collection while another type
\* has one
C21_Witness ==
    /\ last.op = "get"
    /\ last.type \notin Registered
    /\ last.thrown = "invalid_argument"
    /\ Registered /= {}

\* C22: constructing a View throws std::invalid_argument whenever one of its
\* component types has no live collection in the registry; otherwise it
\* succeeds and binds each component type to the registry's live collection
\* of that type.
C22_ViewConstruction ==
    last.op = "View" =>
        IF \E k \in DOMAIN last.type : LiveCollections(World, last.type[k]) = {}
        THEN last.thrown = "invalid_argument"
        ELSE /\ last.thrown = "none"
             /\ \A k \in DOMAIN last.type :
                    /\ LiveCollections(World, last.type[k]) = {last.ptr[k]}
                    /\ View_getCollection(last.ptr, last.type, last.type[k])
                           = Registry_find(instances, registeryId_[World],
                                           last.type[k])

\* a view over several types was just bound while another type has no
\* collection
C22_Witness ==
    /\ last.op = "View"
    /\ last.thrown = "none"
    /\ Len(last.type) >= 2
    /\ \E t \in Types : LiveCollections(World, t) = {}
    /\ \E k \in DOMAIN last.ptr : last.ptr[k][3] = 2

----------------------------------------------------------------------------
(* Further claims about the intersection functions and the View iterator *)

\* C23: a call of begin2, increment2, beginN or incrementN that returns
\* false leaves every cursor where it was when the call began.
C23_FailureKeepsCursors ==
    [][(last'.op \in {"begin2", "increment2", "beginN", "incrementN"}
            /\ ~last'.flag)
        => iterators' = iterators]_vars

\* every cursor at its end, or every cursor on one and the same id
Synchronised(its, seqs) ==
    \/ its = AllEnd(seqs)
    \/ /\ \A k \in DOMAIN its : its[k] < End(seqs[k])
       /\ \A k \in DOMAIN its : seqs[k][its[k]] = seqs[1][its[1]]

\* C24: the iterator end() returns, the iterator begin() returned and the
\* iterator after every ++ have every cursor at its collection's end or
\* every cursor on the same id, never a mixture.
C24_CursorsSynchronised ==
    /\ Synchronised(View_end(ViewSeqs), ViewSeqs)
    /\ iterators_ /= <<>> => Synchronised(iterators_, ViewSeqs)

\* after a ++, the cursors of a view of several components stand on a common
\* id at different positions of their collections
C24_Witness ==
    /\ Len(visited) >= 2
    /\ ~ViewAtEnd
    /\ \E k \in DOMAIN iterators_ : iterators_[k] /= iterators_[1]
    /\ Synchronised(iterators_, ViewSeqs)

\* the iterators ++ leads to from it, it included, up to end()
RECURSIVE IteratorsFrom(_, _)
IteratorsFrom(it, seqs) ==
    IF it = AllEnd(seqs) THEN {it}
    ELSE {it} \cup IteratorsFrom(View_preincrement(it, seqs), seqs)

\* C25: two iterators of the same view, obtained from begin(), end() and ++,
\* compare equal exactly when their first cursors are at the same position;
\* operator!= is the negation.  Every iterator of a traversal is compared
\* with end() and with each iterator that ++ leads to from it.
C25_EqualityByFirstCursor ==
    iterators_ /= <<>> =>
        \A b \in IteratorsFrom(iterators_, ViewSeqs) \cup {View_end(ViewSeqs)} :
            View_equal(iterators_, b) <=> iterators_[1] = b[1]

\* an iterator in the middle of a traversal of several components, unequal
\* to begin() and to end()
C25_Witness ==
    /\ Len(iterators_) >= 2
    /\ Len(visited) >= 2
    /\ ~View_equal(iterators_, View_begin(ViewSeqs))
    /\ ~View_equal(iterators_, View_end(ViewSeqs))
    /\ iterators_[1] /= End(ViewSeqs[1])

\* C26: a call of increment2 or incrementN made with all cursors on a common
\* id that returns true has moved every cursor forward by at least one
\* position and leaves all cursors on a common id strictly greater than the
\* id they were on before the call.
C26_IncrementProgress ==
    [][(last'.op \in {"increment2", "incrementN"} /\ last'.flag)
        => /\ AllMatch(iterators, vecs)
           /\ \A k \in DOMAIN iterators : iterators'[k] >= iterators[k] + 1
           /\ AllMatch(iterators', vecs)
           /\ vecs[1][iterators'[1]] > vecs[1][iterators[1]]]_vars

\* an incrementN over three sequences has returned true a second time, with
\* cursors that moved by different amounts
C26_Witness ==
    /\ last.op = "incrementN"
    /\ last.flag
    /\ Len(vecs) = 3
    /\ Len(found) >= 3
    /\ found[Len(found)] > found[Len(found) - 1]
    /\ \E k \in DOMAIN iterators : iterators[k] /= iterators[1]

\* C27: destroying a CollectionRegistry removes every registration that
\* belongs to it, also when collections are still registered, and a
\* CollectionRegistry constructed afterwards, whatever registry index it is
\* handed, reports find<T>() == null for every type T.
C27_DestroyedRegistryLeavesNothing ==
    [][/\ last'.op = "~CollectionRegistry" =>
              \A t \in Types :
                  Registry_find(instances', registeryId_[last'.reg], t) = NullColl
       /\ (last'.op = "CollectionRegistry" /\ last'.thrown = "none") =>
              \A t \in Types :
                  Registry_find(instances', registeryId_'[last'.reg], t) = NullColl]_vars

\* a registry has just been destroyed while collections were registered on
\* it, its index is free again, and the other registry keeps its collection
C27_Witness ==
    /\ last.op = "~CollectionRegistry"
    /\ last.flag
    /\ \E q \in LiveRegistries :
           /\ registeryId_[q] = 1
           /\ \E t \in Types : Registry_find(instances, 1, t) /= NullColl
    /\ FreeIndexList_alloc(freeMask_).index = 0
    /\ \A t \in Types : Registry_find(instances, 0, t) = NullColl

\* the free functions of Intersection.hpp a traversal of seqs would call
FreeBegin(its, seqs) ==
    IF Len(seqs) = 2 THEN Begin2(its, seqs) ELSE BeginN(its, seqs)

FreeIncrement(its, seqs) ==
    IF Len(seqs) = 2 THEN Increment2(its, seqs) ELSE IncrementN(its, seqs)

\* the free functions' step from the view's position: begin from the first
\* positions, increment from the cursors the previous call left
FreeStep ==
    IF iterators_ = <<>>
    THEN FreeBegin([k \in DOMAIN ViewSeqs |-> 1], ViewSeqs)
    ELSE FreeIncrement(iterators_, ViewSeqs)

\* where the search of a two-sequence traversal starts: the first positions
\* at construction, one past the current positions at ++
SearchStart ==
    IF iterators_ = <<>> THEN <<1, 1>>
    ELSE <<iterators_[1] + 1, iterators_[2] + 1>>

\* intersect2 and the two-sequence intersectN agree from the non-end
\* cursors its: same result, and on true the same cursors, so the same id
IntersectNIsIntersect2(its, seqs) ==
    (its[1] < End(seqs[1]) /\ its[2] < End(seqs[2])) =>
        \A r2 \in {Intersect2(its, seqs)} : \A rN \in {IntersectN(its, seqs)} :
            /\ r2.ret = rN.ret
            /\ r2.ret => r2.its = rN.its

\* C28: a traversal with View::Iterator (construction, then ++ until end)
\* goes through the same cursors and visits the same ids as begin2 /
\* increment2 (two components) or beginN / incrementN (three or more) run on
\* the same id sequences with a false result treated as end; and intersectN
\* over exactly two sequences finds the same ids as intersect2 wherever the
\* traversal starts a search.
C28_ViewFollowsFreeFunctions ==
    [][Len(viewComponents) >= 2 =>
          \A free \in {FreeStep} :
              /\ iterators_' = IF free.ret THEN free.its ELSE AllEnd(ViewSeqs)
              /\ visited' = IF free.ret
                            THEN Append(visited, ViewSeqs[1][free.its[1]])
                            ELSE visited
              /\ Len(viewComponents) = 2
                     => IntersectNIsIntersect2(SearchStart, ViewSeqs)]_vars

\* a traversal over three collections has ended after two or more ids and
\* passed over ids that are not common to all of them
C28_Witness ==
    /\ Len(viewComponents) = 3
    /\ ViewAtEnd
    /\ Len(visited) >= 2
    /\ \A k \in DOMAIN ViewSeqs : Len(ViewSeqs[k]) > Len(visited)

----------------------------------------------------------------------------
(* Termination of the intersection loops and of a View traversal *)

RECURSIVE CursorSum(_)
CursorSum(its) == IF its = <<>> THEN 0 ELSE Head(its) + CursorSum(Tail(its))

\* the number of cursor advances the sequences leave room for
RECURSIVE TotalLen(_)
TotalLen(seqs) == IF seqs = <<>> THEN 0 ELSE Len(Head(seqs)) + TotalLen(Tail(seqs))

\* the loop run from its for at most fuel rounds, two selecting intersect2:
\* ended tells that a round returned, progress that every round that did
\* not return moved the cursors forward
RECURSIVE RunRounds(_, _, _, _)
RunRounds(its, seqs, two, fuel) ==
    IF fuel = 0
    THEN [ended |-> FALSE, progress |-> TRUE, ret |-> FALSE, its |-> its]
    ELSE LET r == IF two THEN Intersect2_round(its, seqs)
                         ELSE IntersectN_round(its, seqs)
         IN  IF r.done
             THEN [ended |-> TRUE, progress |-> TRUE, ret |-> r.ret, its |-> r.its]
             ELSE IF ~(\A k \in DOMAIN its : r.its[k] >= its[k])
                     \/ CursorSum(r.its) <= CursorSum(its)
             THEN [ended |-> FALSE, progress |-> FALSE, ret |-> FALSE, its |-> r.its]
             ELSE RunRounds(r.its, seqs, two, fuel - 1)

\* the loop started at its ends within the room the sequences leave, every
\* round moving forward; for two sequences the rounds are also compared
\* with the results of intersect2 and intersectN
LoopTerminates(its, seqs, two) ==
    \A run \in {RunRounds(its, seqs, two, TotalLen(seqs))} :
        /\ run.progress
        /\ run.ended
        /\ Len(seqs) = 2 =>
               [ret |-> run.ret, its |-> run.its]
                   = IF two THEN Intersect2(its, seqs) ELSE IntersectN(its, seqs)

\* the cursors a search of this traversal step starts from
StartCursors ==
    IF iterators_ = <<>> THEN [k \in DOMAIN ViewSeqs |-> 1]
    ELSE AdvanceAll(iterators_, 1)

\* C30: from non-end starting cursors the loops of intersect2 and intersectN
\* return after finitely many rounds, each round that does not return
\* moving at least one cursor forward and none back; and a View traversal
\* that applies ++ until the iterator equals end() finishes: every ++ moves
\* the cursors forward by at least one position in all, and no cursor ever
\* passes the end of its collection, so the traversal takes at most as many
\* steps as the collections hold ids.
C30_TraversalTerminates ==
    [][/\ (/\ Len(viewComponents) >= 2
           /\ \A k \in DOMAIN ViewSeqs : StartCursors[k] < End(ViewSeqs[k]))
          => /\ LoopTerminates(StartCursors, ViewSeqs, FALSE)
             /\ Len(viewComponents) = 2
                    => LoopTerminates(StartCursors, ViewSeqs, TRUE)
       /\ \A k \in DOMAIN ViewSeqs : iterators_'[k] <= End(ViewSeqs[k])
       /\ iterators_ /= <<>> =>
              /\ \A k \in DOMAIN ViewSeqs : iterators_'[k] >= iterators_[k]
              /\ CursorSum(iterators_') > CursorSum(iterators_)
       /\ CursorSum(iterators_') <= TotalLen(ViewSeqs) + Len(ViewSeqs)]_vars

\* a traversal over two collections has reached end() after visiting ids,
\* having searched past ids that are not common
C30_Witness ==
    /\ Len(viewComponents) = 2
    /\ iterators_ /= <<>>
    /\ ViewAtEnd
    /\ Len(visited) >= 1
    /\ Len(ViewSeqs[1]) > Len(visited) + 1
    /\ Len(ViewSeqs[2]) > Len(visited) + 1

====
